---- MODULE Spec2Model ----
(***************************************************************************)
(* Quovarine: the failover-capable AI provider adapter (OmniAdapter) and   *)
(* the health monitor (SelfHealer) that drives it.                         *)
(*                                                                         *)
(* The systems are modelled over one set of variables:                     *)
(*   Spec        an OmniAdapter used on the request path (sendMessage,     *)
(*               streamMessage, healthCheck, switchProvider, the reads);   *)
(*   SpecHealer  a SelfHealer together with the OmniAdapter it constructs  *)
(*               and keeps private (only the healer calls that adapter);   *)
(*   SpecBridge  one QuovarineBridge.sendMessage call with its retries;    *)
(*   SpecRoute   the POST handler of the route and its rate limiter;       *)
(*   SpecStats   a SelfHealer's recovery log, its statistics and export;   *)
(*   SpecSlicer  a TaskSlicer under any sequence of calls;                 *)
(*   SpecLoop    the documented task execution loop on a TaskSlicer.       *)
(* JavaScript runs each handler to its next await without interleaving, so *)
(* an action is the code between two awaits.                               *)
(***************************************************************************)
EXTENDS Integers, Sequences, FiniteSets, TLC

VARIABLES
  anthropicKey,        \* process.env.ANTHROPIC_API_KEY is set
  openaiKey,           \* process.env.OPENAI_API_KEY is set
  provider,            \* OmniAdapter.provider (the requested / preferred provider)
  currentProvider,     \* OmniAdapter.currentProvider
  primaryAdapter,      \* OmniAdapter.primaryAdapter: "QuovarineBridge" or "null"
  fallbackAdapters,    \* keys of OmniAdapter.fallbackAdapters
  upstream,            \* what each provider's remote API answers at this moment
  reqs,                \* the sendMessage / streamMessage calls, one record per call slot
  lastOp,              \* the adapter or healer operation that ran last, and what it raised
  isMonitoring,        \* SelfHealer.isMonitoring
  healthCheckInterval, \* SelfHealer.healthCheckInterval is not null (a timer is scheduled)
  consecutiveFailures, \* SelfHealer.consecutiveFailures.get('ai') || 0
  recoveryHistory,     \* SelfHealer.recoveryHistory
  ticks,               \* timer callbacks that await their AI health probe
  cloudKeys,           \* the cloud credentials set in process.env
  cloudProvider,       \* CloudOrchestrator.currentProvider of the healer's orchestrator
  cloudFailures,       \* SelfHealer.consecutiveFailures.get('cloud-<type>') || 0
  cloudTimers,         \* interval timers scheduled by CloudOrchestrator.startHealthChecks
  healerTimers,        \* interval timers scheduled by SelfHealer.startMonitoring
  run,                 \* the unhealthy AI probes since the counter was last zero, and
                       \* the RecoveryActions those probes appended
  bridge,              \* one QuovarineBridge.sendMessage call: its position, its
                       \* retryCount, the upstream's answers and the delays it slept
  report,              \* what SelfHealer.getRecoveryStats / exportHistory returned last
  slicer,              \* one TaskSlicer: its taskQueue, the operation that ran last,
                       \* and the position of the documented execution loop
  route                \* the route module: usageTracker, Date.now(), the POST in
                       \* progress and its answer, and the admissions of the last minute

adapterVars == <<provider, currentProvider, primaryAdapter, fallbackAdapters>>
configVars  == <<anthropicKey, openaiKey>>
healerVars  == <<isMonitoring, healthCheckInterval, consecutiveFailures,
                 recoveryHistory, ticks, cloudKeys, cloudProvider, cloudFailures, cloudTimers,
                 healerTimers, run>>
\* The objects the adapter and the health monitor do not touch
sideVars == <<bridge, route, report, slicer>>
vars == <<anthropicKey, openaiKey, provider, currentProvider, primaryAdapter,
          fallbackAdapters, upstream, reqs, lastOp, isMonitoring,
          healthCheckInterval, consecutiveFailures, recoveryHistory, ticks,
          cloudKeys, cloudProvider, cloudFailures, cloudTimers, healerTimers, run, bridge, route, report, slicer>>

(***************************************************************************)
(* Bounds of the model                                                     *)
(***************************************************************************)
MaxReq == 1        \* sendMessage / streamMessage calls that may be in flight together
MaxChunks == 1     \* chunks one stream delivers before the model stops it yielding
MaxTicks == 1      \* timer callbacks that may overlap
MaxFailures == 4   \* cap of the consecutive-failure counter
MaxHistory == 3    \* cap of the RecoveryAction log
MaxClock == 2      \* times Date.now() moves on between the requests of the route
MaxTasks == 2      \* tasks of one parsed task queue, and cap of the queue's
                   \* completedTasks and failedTasks counters
maxRequests == 2   \* the quota checkRateLimit is called with (POST passes none,
                   \* so the code's default is 50; the function treats every
                   \* quota alike)

(***************************************************************************)
(* Provider registry: src/unnamed/part_008 (config/providers)              *)
(***************************************************************************)
ANTHROPIC == "anthropic"
OPENAI == "openai"
AZURE_OPENAI == "azure_openai"
AIProvider == {ANTHROPIC, OPENAI, AZURE_OPENAI}

\* A tag that is no member of the enum: the route passes body.provider unchecked.
UnknownTag == "unknown"
Tags == AIProvider \cup {UnknownTag}

AI_PROVIDER_FALLBACK_ORDER == <<ANTHROPIC, OPENAI, AZURE_OPENAI>>

alertThreshold == 3

\* PROVIDERS_CONFIG.ai[p]?.enabled
Enabled(p) ==
  CASE p = ANTHROPIC    -> TRUE
    [] p = OPENAI       -> openaiKey
    [] p = AZURE_OPENAI -> FALSE
    [] OTHER            -> FALSE

EnabledProviders == {p \in AIProvider : Enabled(p)}

\* The remote APIs a request or a probe can address: azure_openai is disabled
\* in PROVIDERS_CONFIG (enabled: false), so nothing ever addresses its endpoint.
Upstreams == {ANTHROPIC, OPENAI}
Outcomes == {"ok", "transient", "fatal"}

\* The adapter holds a client of the Anthropic API only (initializeAdapters):
\* no code reads an answer of the OpenAI API, and all that is told apart of
\* it is whether it would answer.
OutcomesOf(p) == IF p = ANTHROPIC THEN Outcomes ELSE {"ok", "fatal"}
UpstreamStates == {u \in [Upstreams -> Outcomes] : \A p \in Upstreams : u[p] \in OutcomesOf(p)}
Null == "null"
Bridge == "QuovarineBridge"
NoOp == [op |-> "none", arg |-> "-", raised |-> "-"]

(***************************************************************************)
(* OmniAdapter: src/src/adapters/claude/OmniAdapter.ts                     *)
(***************************************************************************)
\* initializeAdapters, called by the constructor with provider = tag
InitialPrimaryAdapter == IF Enabled(ANTHROPIC) /\ anthropicKey THEN Bridge ELSE Null

InitialFallbackAdapters(tag) ==
  IF Enabled(ANTHROPIC) /\ anthropicKey /\ tag = ANTHROPIC THEN {ANTHROPIC} ELSE {}

GetAdapter_AllEnabled(p) ==
  IF Enabled(p) THEN Bridge ELSE Null

GetAdapter(p) ==
  IF p = ANTHROPIC THEN primaryAdapter
  ELSE IF p \in fallbackAdapters THEN Bridge ELSE Null

\* getProviderFallbackOrder with this.provider = pref
FallbackOrderOf(pref) ==
  (IF Enabled(pref) THEN <<pref>> ELSE <<>>)
    \o SelectSeq(AI_PROVIDER_FALLBACK_ORDER, LAMBDA p : p # pref /\ Enabled(p))

GetProviderFallbackOrder == FallbackOrderOf(provider)

\* The loop of sendMessage / streamMessage skips a candidate without adapter
\* ("if (!adapter) continue"): the index of the first candidate from position
\* `from` on that has one, 0 when the loop runs off the list.
NextWithAdapter(providers, from) ==
  LET S == {i \in from..Len(providers) : GetAdapter(providers[i]) # Null}
  IN IF S = {} THEN 0 ELSE CHOOSE i \in S : \A j \in S : i <= j

AttemptAssign_Both(cand) ==
  /\ currentProvider' = cand
  /\ provider' = cand

\* "this.currentProvider = provider" of the loop, before the candidate is called
AttemptAssign(cand) ==
  /\ currentProvider' = cand
  /\ UNCHANGED provider

NoMeta == [actualProvider |-> "-", requestedProvider |-> "-", fallbackUsed |-> FALSE]
NoErr == [code |-> "-", provider |-> "-", cause |-> "-"]

IdleReq == [kind |-> "none", pc |-> "idle", startProvider |-> "-", providers |-> <<>>,
            idx |-> 0, tried |-> <<>>, meta |-> NoMeta, err |-> NoErr,
            chunks |-> <<>>, midErr |-> FALSE]

ReqIds == 1..MaxReq

\* new ProviderUnavailableError('all'), thrown after the loop
UnavailableAll == [code |-> "PROVIDER_UNAVAILABLE", provider |-> "all", cause |-> "-"]

\* A call begins: the candidate list is computed, candidates without adapter
\* are skipped, the first one with an adapter becomes currentProvider and its
\* client is called (the await).  The record of the call is kept in the first
\* slot that holds no call in flight.
BeginCall(r, kind) ==
  /\ reqs[r].pc # "await"
  /\ \A r2 \in 1..(r - 1) : reqs[r2].pc = "await"
  /\ LET providers == GetProviderFallbackOrder
         i == NextWithAdapter(providers, 1)
         base == [IdleReq EXCEPT !.kind = kind, !.startProvider = provider,
                                 !.providers = providers]
     IN IF i = 0
        THEN /\ reqs' = [reqs EXCEPT ![r] = [base EXCEPT !.pc = "raised",
                                                         !.err = UnavailableAll]]
             /\ lastOp' = [op |-> kind, arg |-> "-", raised |-> UnavailableAll.code]
             /\ UNCHANGED <<provider, currentProvider>>
        ELSE /\ reqs' = [reqs EXCEPT ![r] = [base EXCEPT !.pc = "await", !.idx = i]]
             /\ lastOp' = [op |-> kind, arg |-> "-", raised |-> "-"]
             /\ AttemptAssign(providers[i])
  /\ UNCHANGED <<configVars, sideVars, primaryAdapter, fallbackAdapters, upstream, healerVars>>

\* The catch block of sendMessage / streamMessage for candidate idx failing
\* with `cause`: the last candidate of the list raises `allFailed`, any other
\* one continues the loop.
CatchFailure(r, cause, allFailed, mid) ==
  LET q == reqs[r]
      cand == q.providers[q.idx]
      tried == Append(q.tried, [provider |-> cand, result |-> cause])
      j == NextWithAdapter(q.providers, q.idx + 1)
  IN IF cand = q.providers[Len(q.providers)]
     THEN /\ reqs' = [reqs EXCEPT ![r] =
                        [q EXCEPT !.pc = "raised", !.tried = tried, !.midErr = mid,
                                  !.err = [code |-> allFailed, provider |-> cand,
                                           cause |-> cause]]]
          /\ lastOp' = [op |-> q.kind, arg |-> "-", raised |-> allFailed]
          /\ UNCHANGED <<provider, currentProvider>>
     ELSE IF j = 0
     THEN /\ reqs' = [reqs EXCEPT ![r] =
                        [q EXCEPT !.pc = "raised", !.tried = tried, !.midErr = mid,
                                  !.err = UnavailableAll]]
          /\ lastOp' = [op |-> q.kind, arg |-> "-", raised |-> UnavailableAll.code]
          /\ UNCHANGED <<provider, currentProvider>>
     ELSE /\ reqs' = [reqs EXCEPT ![r] =
                        [q EXCEPT !.idx = j, !.tried = tried, !.midErr = mid]]
          /\ lastOp' = [op |-> q.kind, arg |-> "-", raised |-> "-"]
          /\ AttemptAssign(q.providers[j])

SendStart(r) == BeginCall(r, "sendMessage")

\* await adapter.sendMessage(request) settles
SendComplete(r) ==
  /\ reqs[r].kind = "sendMessage"
  /\ reqs[r].pc = "await"
  /\ LET q == reqs[r]
         cand == q.providers[q.idx]
         res == upstream[cand]
     IN IF res = "ok"
        THEN /\ reqs' = [reqs EXCEPT ![r] =
                  [q EXCEPT !.pc = "returned",
                            !.tried = Append(q.tried, [provider |-> cand, result |-> "ok"]),
                            !.meta = [actualProvider |-> cand,
                                      requestedProvider |-> provider,
                                      fallbackUsed |-> (cand # provider)]]]
             /\ lastOp' = [op |-> "sendMessage", arg |-> "-", raised |-> "-"]
             /\ UNCHANGED <<provider, currentProvider>>
        ELSE CatchFailure(r, res, "ALL_PROVIDERS_FAILED", FALSE)
  /\ UNCHANGED <<configVars, sideVars, primaryAdapter, fallbackAdapters, upstream, healerVars>>

StreamStart(r) == BeginCall(r, "streamMessage")

\* for await (const chunk of adapter.streamMessage(request)) yield chunk
StreamChunk(r) ==
  /\ reqs[r].kind = "streamMessage"
  /\ reqs[r].pc = "await"
  /\ Len(reqs[r].chunks) < MaxChunks
  /\ upstream[reqs[r].providers[reqs[r].idx]] = "ok"
  /\ reqs' = [reqs EXCEPT ![r].chunks = Append(@, reqs[r].providers[reqs[r].idx])]
  /\ lastOp' = [op |-> "streamMessage", arg |-> "-", raised |-> "-"]
  /\ UNCHANGED <<configVars, sideVars, adapterVars, upstream, healerVars>>

\* the candidate's stream is exhausted: return
StreamEnd(r) ==
  /\ reqs[r].kind = "streamMessage"
  /\ reqs[r].pc = "await"
  /\ upstream[reqs[r].providers[reqs[r].idx]] = "ok"
  /\ reqs' = [reqs EXCEPT ![r].pc = "returned",
                          ![r].tried = Append(@, [provider |-> reqs[r].providers[reqs[r].idx],
                                                  result |-> "ok"])]
  /\ lastOp' = [op |-> "streamMessage", arg |-> "-", raised |-> "-"]
  /\ UNCHANGED <<configVars, sideVars, adapterVars, upstream, healerVars>>

\* the candidate's stream throws, before or after its first chunk
StreamError(r) ==
  /\ reqs[r].kind = "streamMessage"
  /\ reqs[r].pc = "await"
  /\ upstream[reqs[r].providers[reqs[r].idx]] # "ok"
  /\ CatchFailure(r, upstream[reqs[r].providers[reqs[r].idx]], "ALL_STREAMING_FAILED",
                  \E k \in 1..Len(reqs[r].chunks) :
                      reqs[r].chunks[k] = reqs[r].providers[reqs[r].idx])
  /\ UNCHANGED <<configVars, sideVars, primaryAdapter, fallbackAdapters, upstream, healerVars>>

BridgeHealthCheck_TimeoutRejects(p, timedOut) ==
  IF timedOut
  THEN [healthy |-> FALSE, error |-> "-", raised |-> "Health check timeout"]
  ELSE IF upstream[p] = "ok"
  THEN [healthy |-> TRUE, error |-> "-", raised |-> "-"]
  ELSE [healthy |-> FALSE, error |-> upstream[p], raised |-> "-"]

\* QuovarineBridge.healthCheck of provider p's client: the ping raced against
\* the TIMEOUT_CONFIG.healthCheck timer; `timedOut` says the timer won.  The
\* catch block turns either rejection into healthy: false with its message.
BridgeHealthCheck(p, timedOut) ==
  IF timedOut
  THEN [healthy |-> FALSE, error |-> "Health check timeout", raised |-> "-"]
  ELSE IF upstream[p] = "ok"
  THEN [healthy |-> TRUE, error |-> "-", raised |-> "-"]
  ELSE [healthy |-> FALSE, error |-> upstream[p], raised |-> "-"]

\* OmniAdapter.healthCheck: the HealthStatus it returns (it never assigns a field)
HealthOf(p, timedOut) ==
  IF GetAdapter(p) = Null
  THEN [healthy |-> FALSE, provider |-> p, error |-> "Adapter not initialized"]
  ELSE LET h == BridgeHealthCheck(p, timedOut) IN
       IF h.raised # "-"
       THEN [healthy |-> FALSE, provider |-> p, error |-> h.raised]
       ELSE [healthy |-> h.healthy, provider |-> p, error |-> h.error]

\* healthCheck(): lastOp.arg is "healthy" or the error string of the status
HealthCheck ==
  /\ \E timedOut \in BOOLEAN :
       LET h == HealthOf(currentProvider, timedOut) IN
       lastOp' = [op |-> "healthCheck",
                  arg |-> IF h.healthy THEN "healthy" ELSE h.error,
                  raised |-> "-"]
  /\ UNCHANGED <<configVars, sideVars, adapterVars, upstream, reqs, healerVars>>

SwitchProvider_AssignFirst(tag) ==
  /\ provider' = tag
  /\ currentProvider' = tag
  /\ lastOp' = [op |-> "switchProvider", arg |-> tag,
                raised |-> IF Enabled(tag) THEN "-" ELSE "PROVIDER_NOT_ENABLED"]
  /\ UNCHANGED <<configVars, sideVars, primaryAdapter, fallbackAdapters, upstream, reqs, healerVars>>

SwitchProvider(tag) ==
  /\ IF ~Enabled(tag)
     THEN /\ lastOp' = [op |-> "switchProvider", arg |-> tag,
                        raised |-> "PROVIDER_NOT_ENABLED"]
          /\ UNCHANGED <<provider, currentProvider>>
     ELSE /\ provider' = tag
          /\ currentProvider' = tag
          /\ lastOp' = [op |-> "switchProvider", arg |-> tag, raised |-> "-"]
  /\ UNCHANGED <<configVars, sideVars, primaryAdapter, fallbackAdapters, upstream, reqs, healerVars>>

GetCurrentProvider ==
  /\ lastOp' = [op |-> "getCurrentProvider", arg |-> "-", raised |-> "-"]
  /\ UNCHANGED <<configVars, sideVars, adapterVars, upstream, reqs, healerVars>>

GetAvailableProviders ==
  /\ lastOp' = [op |-> "getAvailableProviders", arg |-> "-", raised |-> "-"]
  /\ UNCHANGED <<configVars, sideVars, adapterVars, upstream, reqs, healerVars>>

\* checkAllProviders(): the map it returns, one entry per key of
\* fallbackAdapters; T holds the providers whose probe timed out
CheckAllProvidersMap(T) ==
  [p \in fallbackAdapters |->
     LET h == BridgeHealthCheck(p, p \in T) IN
     IF h.raised # "-"
     THEN [healthy |-> FALSE, provider |-> p, error |-> h.raised]
     ELSE [healthy |-> h.healthy, provider |-> p, error |-> h.error]]

CheckAllProviders ==
  /\ lastOp' = [op |-> "checkAllProviders", arg |-> "-", raised |-> "-"]
  /\ UNCHANGED <<configVars, sideVars, adapterVars, upstream, reqs, healerVars>>

\* The environment: a provider's remote API changes what it answers.
UpstreamChange(p, o) ==
  /\ o \in OutcomesOf(p)
  /\ upstream[p] # o
  /\ upstream' = [upstream EXCEPT ![p] = o]
  /\ UNCHANGED <<configVars, sideVars, adapterVars, reqs, lastOp, healerVars>>

(***************************************************************************)
(* QuovarineBridge.sendMessage: src/src/adapters/claude/QuovarineBridge.ts *)
(* RETRY_CONFIG: src/unnamed/part_008                                      *)
(***************************************************************************)
maxAttempts == 3
initialDelay == 1000
maxDelay == 10000
backoffMultiplier == 2
retryableStatusCodes == {"408", "429", "500", "502", "503", "504"}
retryableErrors == {"ECONNRESET", "ETIMEDOUT", "ENOTFOUND", "ECONNREFUSED"}

\* What one client.messages.create call can answer: a message ("200"), an
\* Anthropic.APIError with an HTTP status, or an error with a code.
\* ThinkingRejected is the 400 by which the upstream refuses the `thinking`
\* parameter of a request that carries it.
ThinkingRejected == "400 thinking"
StatusAnswers == {"400", "401", "408", "429", "500", ThinkingRejected}
ErrorAnswers == {"ECONNRESET", "EOTHER"}
Answers == {"200"} \cup StatusAnswers \cup ErrorAnswers

\* error.status of an Anthropic.APIError
StatusOf(ans) == IF ans = ThinkingRejected THEN "400" ELSE ans

RECURSIVE Pow(_, _)
Pow(b, e) == IF e = 0 THEN 1 ELSE b * Pow(b, e - 1)

Min(a, b) == IF a <= b THEN a ELSE b

\* isRetryable(error), had it retried every Anthropic.APIError
IsRetryable_AnyAPIError(ans) ==
  IF ans \in StatusAnswers THEN TRUE
  ELSE ans \in retryableErrors

\* isRetryable(error)
IsRetryable(ans) ==
  IF ans \in StatusAnswers THEN StatusOf(ans) \in retryableStatusCodes
  ELSE ans \in retryableErrors

\* createError(error): the code of the QuovarineError
CreateError(ans) ==
  IF ans \in StatusAnswers
  THEN (IF StatusOf(ans) = "429" THEN "RATE_LIMIT_EXCEEDED"
        ELSE "ANTHROPIC_API_ERROR_" \o StatusOf(ans))
  ELSE IF ans \in retryableErrors THEN "PROVIDER_UNAVAILABLE"
  ELSE "UNKNOWN_ERROR"

RetryDelay_FromNextCount(retryCount) ==
  Min(initialDelay * Pow(backoffMultiplier, retryCount + 1), maxDelay)

\* handleError: the delay slept before the retry that follows call retryCount
RetryDelay(retryCount) ==
  Min(initialDelay * Pow(backoffMultiplier, retryCount), maxDelay)

BridgeIdle == [pc |-> "idle", thinking |-> FALSE, retryCount |-> 0,
               answers |-> <<>>, delays |-> <<>>, err |-> "-"]

nonBridgeVars == <<configVars, adapterVars, upstream, reqs, lastOp, healerVars,
                   route, report, slicer>>
nonRouteVars == <<configVars, adapterVars, upstream, reqs, lastOp, healerVars,
                  bridge, report, slicer>>
nonReportVars == <<configVars, adapterVars, upstream, reqs, lastOp, healerVars,
                   bridge, route, slicer>>
nonSlicerVars == <<configVars, adapterVars, upstream, reqs, lastOp, healerVars,
                   bridge, route, report>>

\* sendMessage(request) is called with retryCount = 0, puts `thinking` into
\* claudeRequest when request.thinking is set, and awaits
\* client.messages.create
BridgeSendMessage(thinking) ==
  /\ bridge.pc \in {"idle", "returned", "raised"}
  /\ bridge' = [BridgeIdle EXCEPT !.pc = "create", !.thinking = thinking]
  /\ UNCHANGED nonBridgeVars

\* client.messages.create settles with `ans`: parseResponse, or handleError
\* up to its await of sleep(delay), or its throw
BridgeCreateSettles(ans) ==
  /\ bridge.pc = "create"
  /\ ans = ThinkingRejected => bridge.thinking
  /\ LET answers == Append(bridge.answers, ans) IN
     IF ans = "200"
     THEN bridge' = [bridge EXCEPT !.pc = "returned", !.answers = answers]
     ELSE IF bridge.retryCount < maxAttempts /\ IsRetryable(ans)
     THEN bridge' = [bridge EXCEPT !.pc = "sleep", !.answers = answers,
                                   !.delays = Append(@, RetryDelay(bridge.retryCount))]
     ELSE bridge' = [bridge EXCEPT !.pc = "raised", !.answers = answers,
                                   !.err = CreateError(ans)]
  /\ UNCHANGED nonBridgeVars

\* sleep(delay) resolves: return this.sendMessage(request, retryCount + 1)
BridgeSleepDone ==
  /\ bridge.pc = "sleep"
  /\ bridge' = [bridge EXCEPT !.pc = "create", !.retryCount = @ + 1]
  /\ UNCHANGED nonBridgeVars

(***************************************************************************)
(* POST /api/opus: src/app/api/opus/route.ts                               *)
(***************************************************************************)
windowMs == 60000

\* request.headers.get('x-forwarded-for') || 'default'
Identifiers == {"default", "10.0.0.1"}

\* The steps by which Date.now() moves between two requests: the next
\* millisecond, or a whole window.
Advances == {1, windowMs}

\* usageTracker.get(identifier) || { requests: 0, lastReset: now }
UsageOf(tracker, identifier, now) ==
  IF identifier \in DOMAIN tracker THEN tracker[identifier]
  ELSE [requests |-> 0, lastReset |-> now]

\* checkRateLimit(identifier, maxRequests) at Date.now() = now: whether the
\* request passes, and usageTracker afterwards.  A usage that is already in
\* the map is reset in place, so the reset stays when the request is refused.
CheckRateLimit(tracker, identifier, limit, now) ==
  LET usage == UsageOf(tracker, identifier, now)
      fresh == IF now - usage.lastReset > windowMs
               THEN [requests |-> 0, lastReset |-> now]
               ELSE usage
      kept  == [i \in DOMAIN tracker |-> IF i = identifier THEN fresh ELSE tracker[i]]
  IN IF fresh.requests >= limit
     THEN [ok |-> FALSE, tracker |-> kept]
     ELSE [ok |-> TRUE,
           tracker |-> [i \in DOMAIN tracker \cup {identifier} |->
                          IF i = identifier
                          THEN [fresh EXCEPT !.requests = @ + 1]
                          ELSE tracker[i]]]

\* The admissions that are less than windowMs old at `now`
StillInWindow(times, now) == SelectSeq(times, LAMBDA t : now - t < windowMs)

\* What request.json() and the fields of the body can be
Bodies == {"malformed", "no prompt", "stream", "standard"}

\* How adapter.sendMessage(request) settles: with a response, or with the
\* QuovarineError it raises once its candidates are exhausted
SendMessageOutcomes == {"returned", "raised"}

RouteIdle == [usageTracker |-> [i \in {} |-> 0],
              now |-> 0,
              advances |-> 0,
              admitted |-> [i \in Identifiers |-> <<>>],
              pc |-> "idle",
              adapter |-> "-",
              answer |-> "-"]

\* Date.now() moves on
ClockAdvance(d) ==
  /\ route.advances < MaxClock
  /\ route' = [route EXCEPT
                 !.now = @ + d,
                 !.advances = @ + 1,
                 !.admitted = [i \in Identifiers |->
                                 StillInWindow(route.admitted[i], route.now + d)]]
  /\ UNCHANGED nonRouteVars

\* POST up to its first await: authenticate, checkRateLimit(identifier),
\* await request.json()
PostStart(identifier, authorized) ==
  /\ route.pc = "idle"
  /\ IF ~authorized
     THEN route' = [route EXCEPT !.answer = "401", !.adapter = "-"]
     ELSE LET c == CheckRateLimit(route.usageTracker, identifier, maxRequests,
                                  route.now)
          IN IF ~c.ok
             THEN route' = [route EXCEPT !.usageTracker = c.tracker,
                                         !.answer = "429", !.adapter = "-"]
             ELSE route' = [route EXCEPT
                              !.usageTracker = c.tracker,
                              !.admitted[identifier] = Append(@, route.now),
                              !.pc = "json", !.answer = "-", !.adapter = "-"]
  /\ UNCHANGED nonRouteVars

\* request.json() settles.  A rejection is awaited inside POST's try and is
\* answered by its catch.  With a prompt, POST builds the adapter and
\* returns the promise of handleStreamingResponse or handleStandardResponse
\* without awaiting it; handleStandardResponse runs to its await of
\* adapter.sendMessage.
PostJsonSettles(body) ==
  /\ route.pc = "json"
  /\ route' =
       CASE body = "malformed" -> [route EXCEPT !.pc = "idle", !.answer = "500 Internal server error"]
         [] body = "no prompt" -> [route EXCEPT !.pc = "idle", !.answer = "400"]
         [] body = "stream"    -> [route EXCEPT !.pc = "idle", !.answer = "200 stream"]
         [] body = "standard"  -> [route EXCEPT !.pc = "sendMessage"]
  /\ UNCHANGED nonRouteVars

\* What the caller of POST gets when handleStandardResponse rethrows: POST
\* has left its try block by `return handleStandardResponse(...)`, so the
\* promise POST returned rejects with the QuovarineError.
StandardFailure == "rejected"

\* adapter.sendMessage settles inside handleStandardResponse
PostSendMessageSettles(outcome) ==
  /\ route.pc = "sendMessage"
  /\ route' = [route EXCEPT
                 !.pc = "idle",
                 !.adapter = outcome,
                 !.answer = IF outcome = "returned" THEN "200 json"
                            ELSE StandardFailure]
  /\ UNCHANGED nonRouteVars

(***************************************************************************)
(* TaskSlicer: src/src/core/TaskSlicer.ts                                  *)
(***************************************************************************)
PENDING == "pending"
IN_PROGRESS == "in_progress"
COMPLETED == "completed"
FAILED == "failed"
BLOCKED == "blocked"
TaskStatus == {PENDING, IN_PROGRESS, COMPLETED, FAILED, BLOCKED}

\* What TaskQueueSchema lets through: ids are any strings (two tasks may
\* carry the same one), priorities lie in 1..10, dependencies are any ids
\* (of the task itself, of another task, of no task of the queue).
TaskIds == {"task-1", "task-2"}
Priorities == {1, 10}
DependencyLists == {{}, {"task-1"}}
ParsedTasks == [id : TaskIds, priority : Priorities, dependencies : DependencyLists]
ParsedQueues == UNION {[1..n -> ParsedTasks] : n \in 0..MaxTasks}

\* tasks.map(task => ({ ...task, status: TaskStatus.PENDING, ... })) with the
\* counters of a new queue (decompose, import)
NewQueue(parsed) ==
  [tasks |-> [i \in 1..Len(parsed) |->
                [id |-> parsed[i].id, priority |-> parsed[i].priority,
                 dependencies |-> parsed[i].dependencies, status |-> PENDING]],
   totalTasks |-> Len(parsed),
   completedTasks |-> 0,
   failedTasks |-> 0]

\* this.taskQueue.tasks.find(t => t.id === taskId): the index of the first
\* task with that id, 0 for undefined
FindTask(tasks, taskId) ==
  LET S == {i \in 1..Len(tasks) : tasks[i].id = taskId}
  IN IF S = {} THEN 0 ELSE CHOOSE i \in S : \A j \in S : i <= j

\* completedIds of getNextTask
CompletedIds(tasks) == {tasks[i].id : i \in {j \in 1..Len(tasks) : tasks[j].status = COMPLETED}}

\* availableTasks of getNextTask before the sort, as indices into the queue
AvailableTasks(tasks) ==
  {i \in 1..Len(tasks) :
     /\ tasks[i].status = PENDING
     /\ \A depId \in tasks[i].dependencies : depId \in CompletedIds(tasks)}

GetNextTaskOf_LowestFirst(tasks) ==
  LET A == AvailableTasks(tasks)
      best == {i \in A : \A j \in A : tasks[j].priority >= tasks[i].priority}
  IN IF A = {} THEN 0 ELSE CHOOSE i \in best : \A j \in best : i <= j

\* getNextTask(): availableTasks sorted by descending priority (the sort is
\* stable, so the first of the highest priority in queue order leads), then
\* availableTasks[0] || null; the index of the task, 0 for null
GetNextTaskOf(tasks) ==
  LET A == AvailableTasks(tasks)
      best == {i \in A : \A j \in A : tasks[j].priority <= tasks[i].priority}
  IN IF A = {} THEN 0 ELSE CHOOSE i \in best : \A j \in best : i <= j

\* startTask(taskId) on the queue q
StartTaskOf(q, taskId) ==
  LET i == FindTask(q.tasks, taskId)
  IN IF i # 0 /\ q.tasks[i].status = PENDING
     THEN [q EXCEPT !.tasks[i].status = IN_PROGRESS]
     ELSE q

\* completeTask(taskId)
CompleteTaskOf(q, taskId) ==
  LET i == FindTask(q.tasks, taskId)
  IN IF i # 0
     THEN [q EXCEPT !.tasks[i].status = COMPLETED, !.completedTasks = @ + 1]
     ELSE q

\* failTask(taskId, error)
FailTaskOf(q, taskId) ==
  LET i == FindTask(q.tasks, taskId)
  IN IF i # 0
     THEN [q EXCEPT !.tasks[i].status = FAILED, !.failedTasks = @ + 1]
     ELSE q

\* blockTask(taskId, reason)
BlockTaskOf(q, taskId) ==
  LET i == FindTask(q.tasks, taskId)
  IN IF i # 0
     THEN [q EXCEPT !.tasks[i].status = BLOCKED]
     ELSE q

\* getProgress().percentComplete, kept as the fraction <<numerator,
\* denominator>> of (completedTasks / totalTasks) * 100
PercentComplete(q) ==
  IF q.totalTasks > 0 THEN <<q.completedTasks * 100, q.totalTasks>> ELSE <<0, 1>>

\* new TaskSlicer(): an empty queue.  `last` is the operation that ran last
\* and `next` what getNextTask returned when it was that operation (an index
\* into the queue, 0 for null); pc and held are the position of the
\* documented execution loop and the task.id it holds.
EmptyQueue == [tasks |-> <<>>, totalTasks |-> 0, completedTasks |-> 0, failedTasks |-> 0]
SlicerIdle == [queue |-> EmptyQueue, last |-> "none", next |-> 0,
               pc |-> "new", held |-> "-"]

Ids(parsed) == {parsed[i].id : i \in 1..Len(parsed)}

\* import(json) / decompose(problemStatement): the parsed tasks become the
\* queue.  The new queue does not depend on the old one, so the model takes
\* the call on a new or reset TaskSlicer only.
Import ==
  /\ slicer.last \in {"none", "reset"}
  /\ \E parsed \in ParsedQueues :
       slicer' = [slicer EXCEPT !.queue = NewQueue(parsed), !.last = "import",
                                !.next = 0]
  /\ UNCHANGED nonSlicerVars

\* getNextTask()
GetNextTask ==
  /\ slicer' = [slicer EXCEPT !.last = "getNextTask",
                              !.next = GetNextTaskOf(slicer.queue.tasks)]
  /\ UNCHANGED nonSlicerVars

\* startTask(taskId)
StartTask(taskId) ==
  /\ slicer' = [slicer EXCEPT !.queue = StartTaskOf(@, taskId),
                              !.last = "startTask", !.next = 0]
  /\ UNCHANGED nonSlicerVars

\* completeTask(taskId)
CompleteTask(taskId) ==
  /\ slicer.queue.completedTasks < MaxTasks
  /\ slicer' = [slicer EXCEPT !.queue = CompleteTaskOf(@, taskId),
                              !.last = "completeTask", !.next = 0]
  /\ UNCHANGED nonSlicerVars

\* failTask(taskId, error)
FailTask(taskId) ==
  /\ slicer.queue.failedTasks < MaxTasks
  /\ slicer' = [slicer EXCEPT !.queue = FailTaskOf(@, taskId),
                              !.last = "failTask", !.next = 0]
  /\ UNCHANGED nonSlicerVars

\* blockTask(taskId, reason)
BlockTask(taskId) ==
  /\ slicer' = [slicer EXCEPT !.queue = BlockTaskOf(@, taskId),
                              !.last = "blockTask", !.next = 0]
  /\ UNCHANGED nonSlicerVars

\* reset()
Reset ==
  /\ slicer' = [slicer EXCEPT !.queue = EmptyQueue, !.last = "reset", !.next = 0]
  /\ UNCHANGED nonSlicerVars

\* The dependency relation of the parsed tasks, and the ids an id reaches
\* through it in at most n steps
DependsOn(parsed, a) ==
  UNION {parsed[i].dependencies : i \in {j \in 1..Len(parsed) : parsed[j].id = a}}

RECURSIVE Reaches(_, _, _)
Reaches(parsed, a, n) ==
  IF n = 0 THEN {}
  ELSE LET D == DependsOn(parsed, a)
       IN D \cup UNION {Reaches(parsed, b, n - 1) : b \in D}

\* The queues of the documented loop: not empty, the dependencies acyclic
\* and naming only tasks of the queue
LoopQueues ==
  {parsed \in ParsedQueues :
     /\ parsed # <<>>
     /\ \A i \in 1..Len(parsed) : parsed[i].dependencies \subseteq Ids(parsed)
     /\ \A a \in Ids(parsed) : a \notin Reaches(parsed, a, Len(parsed))}

\* taskDecompositionExample: const queue = await slicer.decompose(...)
LoopDecompose ==
  /\ slicer.pc = "new"
  /\ \E parsed \in LoopQueues :
       slicer' = [slicer EXCEPT !.queue = NewQueue(parsed), !.last = "import",
                                !.next = 0, !.pc = "getNextTask"]
  /\ UNCHANGED nonSlicerVars

\* const task = slicer.getNextTask(); if (!task) break;
LoopGetNextTask ==
  /\ slicer.pc = "getNextTask"
  /\ LET i == GetNextTaskOf(slicer.queue.tasks) IN
     slicer' = [slicer EXCEPT
                  !.last = "getNextTask", !.next = i,
                  !.pc = IF i = 0 THEN "done" ELSE "startTask",
                  !.held = IF i = 0 THEN "-" ELSE slicer.queue.tasks[i].id]
  /\ UNCHANGED nonSlicerVars

\* slicer.startTask(task.id); then the work is awaited
LoopStartTask ==
  /\ slicer.pc = "startTask"
  /\ slicer' = [slicer EXCEPT !.queue = StartTaskOf(@, slicer.held),
                              !.last = "startTask", !.next = 0,
                              !.pc = "completeTask"]
  /\ UNCHANGED nonSlicerVars

\* slicer.completeTask(task.id); back to the top of the loop
LoopCompleteTask ==
  /\ slicer.pc = "completeTask"
  /\ slicer.queue.completedTasks < MaxTasks
  /\ slicer' = [slicer EXCEPT !.queue = CompleteTaskOf(@, slicer.held),
                              !.last = "completeTask", !.next = 0,
                              !.pc = "getNextTask", !.held = "-"]
  /\ UNCHANGED nonSlicerVars

(***************************************************************************)
(* CloudOrchestrator as the SelfHealer uses it: src/unnamed/part_007       *)
(***************************************************************************)
VERCEL == "vercel"
AWS == "aws"
AZURE == "azure"
CloudType == {VERCEL, AWS, AZURE}
CloudEnv == {"VERCEL_TOKEN", "AWS_ACCESS_KEY_ID", "AWS_SECRET_ACCESS_KEY",
             "AZURE_FUNCTIONS_KEY"}

\* PROVIDERS_CONFIG.cloud[t].enabled: the key set of CloudOrchestrator.providers
CloudEnabled(t) ==
  CASE t = VERCEL -> TRUE
    [] t = AWS    -> "AWS_ACCESS_KEY_ID" \in cloudKeys
    [] t = AZURE  -> "AZURE_FUNCTIONS_KEY" \in cloudKeys

\* <Provider>.healthCheck: healthy = await this.isAvailable()
CloudHealthy(t) ==
  CASE t = VERCEL -> "VERCEL_TOKEN" \in cloudKeys
    [] t = AWS    -> "AWS_ACCESS_KEY_ID" \in cloudKeys /\ "AWS_SECRET_ACCESS_KEY" \in cloudKeys
    [] t = AZURE  -> "AZURE_FUNCTIONS_KEY" \in cloudKeys

CLOUD_PROVIDER_FALLBACK_ORDER == <<VERCEL, AWS, AZURE>>

\* CloudOrchestrator.getProviderFallbackOrder with currentProvider = current
CloudFallbackOrderOf(current) ==
  (IF CloudEnabled(current) THEN <<current>> ELSE <<>>)
    \o SelectSeq(CLOUD_PROVIDER_FALLBACK_ORDER,
                 LAMBDA t : t # current /\ CloudEnabled(t))

\* CloudOrchestrator.failover(): the currentProvider it leaves, which is the
\* first other provider of the fallback order that isAvailable(), or the old
\* one when there is none
CloudFailover(current) ==
  LET c == SelectSeq(CloudFallbackOrderOf(current),
                     LAMBDA t : t # current /\ CloudHealthy(t))
  IN IF c = <<>> THEN current ELSE c[1]

(***************************************************************************)
(* SelfHealer: src/IMPLEMENTATION_SUMMARY.md lines 290-630                 *)
(***************************************************************************)
NoRun == [probes |-> 0, actions |-> 0]

HealerIdle ==
  /\ isMonitoring = FALSE
  /\ healthCheckInterval = FALSE
  /\ consecutiveFailures = 0
  /\ recoveryHistory = <<>>
  /\ ticks = 0
  /\ cloudFailures = [t \in CloudType |-> 0]
  /\ cloudTimers = 0
  /\ healerTimers = 0
  /\ run = NoRun

\* getAvailableProviders(): Array.from(fallbackAdapters.keys()), in the
\* insertion order of the Map (the order of initializeAdapters)
GetAvailableProvidersSeq ==
  SelectSeq(AI_PROVIDER_FALLBACK_ORDER, LAMBDA p : p \in fallbackAdapters)

\* availableProviders.find(p => p !== currentProvider), Null when undefined
NextProvider ==
  LET c == SelectSeq(GetAvailableProvidersSeq, LAMBDA p : p # currentProvider)
  IN IF c = <<>> THEN Null ELSE c[1]

\* timestamp: new Date(), and what JSON.stringify writes for a Date
DateObject == "Date"
ISOString == "ISO 8601 string"

RecoveryAction_SwapsProviders(failed, failover, ok, reason) ==
  [timestamp |-> DateObject, failedProvider |-> failover,
   failoverProvider |-> failed, success |-> ok, reason |-> reason]

\* A RecoveryAction as performAIFailover builds it (id and duration are
\* wall-clock readings and are left out)
RecoveryAction(failed, failover, ok, reason) ==
  [timestamp |-> DateObject, failedProvider |-> failed,
   failoverProvider |-> failover, success |-> ok, reason |-> reason]

FailedAction_NamesFailed(failedProvider, thrown) ==
  RecoveryAction(failedProvider, failedProvider, FALSE, thrown)

\* The catch block of performAIFailover: the RecoveryAction it pushes for the
\* error `thrown` inside the try block
FailedAction(failedProvider, thrown) ==
  RecoveryAction(failedProvider, "none", FALSE, thrown)

Escapes_Rethrow(thrown) == thrown

\* What leaves performAIFailover and performHealthChecks of an error thrown
\* inside them: both catch everything and rethrow nothing
Escapes(thrown) == "-"

\* performAIFailover(failedProvider): the adapter fields and the log it leaves,
\* the error thrown inside its try block and whether it reset the counter.  The
\* re-probe of the new provider is awaited only after a switch; it is read
\* here from `upstream` at once.
FailoverResult(failedProvider) ==
  LET next == NextProvider IN
  IF next = Null
  THEN [provider |-> provider, current |-> currentProvider, reset |-> FALSE,
        thrown |-> "NO_FAILOVER_AVAILABLE",
        action |-> FailedAction(failedProvider, "NO_FAILOVER_AVAILABLE")]
  ELSE IF ~Enabled(next)
  THEN [provider |-> provider, current |-> currentProvider, reset |-> FALSE,
        thrown |-> "PROVIDER_NOT_ENABLED",
        action |-> FailedAction(failedProvider, "PROVIDER_NOT_ENABLED")]
  ELSE IF ~(GetAdapter(next) # Null /\ upstream[next] = "ok")
  THEN [provider |-> next, current |-> next, reset |-> FALSE,
        thrown |-> "FAILOVER_UNHEALTHY",
        action |-> FailedAction(failedProvider, "FAILOVER_UNHEALTHY")]
  ELSE [provider |-> next, current |-> next, reset |-> TRUE,
        thrown |-> "-",
        action |-> RecoveryAction(failedProvider, next, TRUE,
                                  "Consecutive health check failures")]

StartMonitoring_NoGuard ==
  /\ healerTimers <= MaxTicks
  /\ isMonitoring' = TRUE
  /\ healthCheckInterval' = TRUE
  /\ healerTimers' = healerTimers + 1
  /\ cloudTimers' = cloudTimers + 1
  /\ lastOp' = [op |-> "startMonitoring",
                arg |-> IF isMonitoring THEN "already started" ELSE "-",
                raised |-> "-"]
  /\ UNCHANGED <<configVars, sideVars, adapterVars, upstream, reqs, consecutiveFailures,
                 recoveryHistory, ticks, cloudKeys, cloudProvider, cloudFailures, run>>

\* startMonitoring(): lastOp.arg tells that the call found monitoring active
\* (the console.warn branch)
StartMonitoring ==
  /\ IF isMonitoring
     THEN UNCHANGED <<isMonitoring, healthCheckInterval, healerTimers, cloudTimers>>
     ELSE /\ isMonitoring' = TRUE
          /\ healthCheckInterval' = TRUE
          /\ healerTimers' = healerTimers + 1
          /\ cloudTimers' = cloudTimers + 1
  /\ lastOp' = [op |-> "startMonitoring",
                arg |-> IF isMonitoring THEN "already started" ELSE "-",
                raised |-> "-"]
  /\ UNCHANGED <<configVars, sideVars, adapterVars, upstream, reqs, consecutiveFailures,
                 recoveryHistory, ticks, cloudKeys, cloudProvider, cloudFailures, run>>

StopMonitoring_ClearsCounters ==
  /\ healthCheckInterval' = FALSE
  /\ healerTimers' = IF healthCheckInterval THEN healerTimers - 1 ELSE healerTimers
  /\ cloudTimers' = IF cloudTimers > 0 THEN cloudTimers - 1 ELSE 0
  /\ isMonitoring' = FALSE
  /\ consecutiveFailures' = 0
  /\ lastOp' = [op |-> "stopMonitoring",
                arg |-> IF healthCheckInterval THEN "cleared" ELSE "-",
                raised |-> "-"]
  /\ UNCHANGED <<configVars, sideVars, adapterVars, upstream, reqs,
                 recoveryHistory, ticks, cloudKeys, cloudProvider, cloudFailures, run>>

StopMonitoring_KeepsFlag ==
  /\ healthCheckInterval' = FALSE
  /\ healerTimers' = IF healthCheckInterval THEN healerTimers - 1 ELSE healerTimers
  /\ cloudTimers' = IF cloudTimers > 0 THEN cloudTimers - 1 ELSE 0
  /\ lastOp' = [op |-> "stopMonitoring",
                arg |-> IF healthCheckInterval THEN "cleared" ELSE "-",
                raised |-> "-"]
  /\ UNCHANGED <<configVars, sideVars, adapterVars, upstream, reqs, consecutiveFailures,
                 recoveryHistory, ticks, cloudKeys, cloudProvider, cloudFailures, run, isMonitoring>>

\* stopMonitoring(): lastOp.arg tells that a timer handle was held and cleared
StopMonitoring ==
  /\ healthCheckInterval' = FALSE
  /\ healerTimers' = IF healthCheckInterval THEN healerTimers - 1 ELSE healerTimers
  /\ cloudTimers' = IF cloudTimers > 0 THEN cloudTimers - 1 ELSE 0
  /\ isMonitoring' = FALSE
  /\ lastOp' = [op |-> "stopMonitoring",
                arg |-> IF healthCheckInterval THEN "cleared" ELSE "-",
                raised |-> "-"]
  /\ UNCHANGED <<configVars, sideVars, adapterVars, upstream, reqs, consecutiveFailures,
                 recoveryHistory, ticks, cloudKeys, cloudProvider, cloudFailures, run>>

\* The interval timer fires: performHealthChecks -> checkAIAdapter ->
\* await this.aiAdapter.healthCheck()
TickFire ==
  /\ healerTimers > 0
  /\ ticks < MaxTicks
  /\ ticks' = ticks + 1
  /\ lastOp' = [op |-> "tick", arg |-> "-", raised |-> "-"]
  /\ UNCHANGED <<configVars, sideVars, adapterVars, upstream, reqs, isMonitoring,
                 healthCheckInterval, consecutiveFailures, recoveryHistory,
                 cloudKeys, cloudProvider, cloudFailures, cloudTimers, healerTimers, run>>

\* handleAIFailure: does this failure count trigger performAIFailover?
ThresholdReached_Greater(failureCount) == failureCount > alertThreshold

ThresholdReached(failureCount) == failureCount >= alertThreshold

CounterAfterProbe_NoReset(healthy, count) ==
  IF healthy THEN count ELSE count + 1

\* checkAIAdapter / handleAIFailure: the 'ai' counter after a probe
CounterAfterProbe(healthy, count) ==
  IF healthy THEN 0 ELSE count + 1

\* checkCloudProviders / handleCloudFailure: the 'cloud-<type>' counters after
\* one pass over cloudOrchestrator.checkAllProviders()
CloudFailuresAfterCheck ==
  [t \in CloudType |->
     IF ~CloudEnabled(t) THEN cloudFailures[t]
     ELSE IF CloudHealthy(t) THEN 0
     ELSE cloudFailures[t] + 1]

CloudProviderAfterCheck_FailsOver ==
  IF \E t \in CloudType : /\ CloudEnabled(t) /\ ~CloudHealthy(t)
                          /\ ThresholdReached(CloudFailuresAfterCheck[t])
  THEN CloudFailover(cloudProvider)
  ELSE cloudProvider

\* checkCloudProviders / handleCloudFailure: what they leave of the
\* orchestrator's currentProvider.  They call checkAllProviders, set counters
\* and logAlert; nothing of the orchestrator is written.
CloudProviderAfterCheck == cloudProvider

\* The orchestrator's own interval timer fires (the callback of
\* CloudOrchestrator.startHealthChecks): checkAllProviders, then failover()
\* when the current provider is in the health map and unhealthy.  The cloud
\* providers' probes read process.env only, so the callback's awaits see
\* nothing that another callback changes.  It is no operation of the healer
\* and leaves lastOp alone.
CloudTimerFire ==
  /\ cloudTimers > 0
  /\ cloudProvider' = IF CloudEnabled(cloudProvider) /\ ~CloudHealthy(cloudProvider)
                      THEN CloudFailover(cloudProvider)
                      ELSE cloudProvider
  /\ UNCHANGED <<configVars, sideVars, adapterVars, upstream, reqs, lastOp,
                 isMonitoring, healthCheckInterval, consecutiveFailures,
                 recoveryHistory, ticks, cloudKeys, cloudFailures, cloudTimers,
                 healerTimers, run>>

\* The AI probe of a tick settles; the rest of performHealthChecks runs:
\* checkAIAdapter (handleAIFailure, performAIFailover), then checkCloudProviders.
TickProbeDone ==
  /\ ticks > 0
  /\ ticks' = ticks - 1
  /\ \A t \in CloudType : CloudFailuresAfterCheck[t] <= MaxFailures
  /\ cloudFailures' = CloudFailuresAfterCheck
  /\ cloudProvider' = CloudProviderAfterCheck
  /\ \E timedOut \in BOOLEAN :
     LET health == HealthOf(currentProvider, timedOut) IN
     IF health.healthy
     THEN /\ consecutiveFailures' = CounterAfterProbe(TRUE, consecutiveFailures)
          /\ run' = NoRun
          /\ lastOp' = [op |-> "performHealthChecks", arg |-> "healthy",
                        raised |-> "-"]
          /\ UNCHANGED <<provider, currentProvider, recoveryHistory>>
     ELSE LET failureCount == CounterAfterProbe(FALSE, consecutiveFailures)
              base == IF consecutiveFailures = 0 THEN NoRun ELSE run
              f == FailoverResult(health.provider)
          IN /\ failureCount <= MaxFailures
             /\ lastOp' = [op |-> "performHealthChecks", arg |-> "unhealthy",
                           raised |-> IF ThresholdReached(failureCount)
                                      THEN Escapes(f.thrown) ELSE "-"]
             /\ IF ThresholdReached(failureCount)
                THEN /\ Len(recoveryHistory) < MaxHistory
                     /\ provider' = f.provider
                     /\ currentProvider' = f.current
                     /\ recoveryHistory' = Append(recoveryHistory, f.action)
                     /\ consecutiveFailures' = IF f.reset THEN 0 ELSE failureCount
                     /\ run' = [probes |-> base.probes + 1,
                                actions |-> base.actions + Len(recoveryHistory')
                                                         - Len(recoveryHistory)]
                ELSE /\ consecutiveFailures' = failureCount
                     /\ run' = [probes |-> base.probes + 1, actions |-> base.actions]
                     /\ UNCHANGED <<provider, currentProvider, recoveryHistory>>
  /\ UNCHANGED <<configVars, sideVars, primaryAdapter, fallbackAdapters, upstream, reqs,
                 isMonitoring, healthCheckInterval, cloudKeys, cloudTimers,
                 healerTimers>>

ForceAIFailover_ReplacesLog ==
  /\ Len(recoveryHistory) < MaxHistory
  /\ LET f == FailoverResult(currentProvider) IN
       /\ provider' = f.provider
       /\ currentProvider' = f.current
       /\ recoveryHistory' = <<f.action>>
       /\ consecutiveFailures' = IF f.reset THEN 0 ELSE consecutiveFailures
  /\ lastOp' = [op |-> "forceAIFailover", arg |-> currentProvider,
                raised |-> Escapes(FailoverResult(currentProvider).thrown)]
  /\ UNCHANGED <<configVars, sideVars, primaryAdapter, fallbackAdapters, upstream, reqs,
                 isMonitoring, healthCheckInterval, ticks, cloudKeys, cloudProvider, cloudFailures,
                 cloudTimers, healerTimers, run>>

\* forceAIFailover(): performAIFailover(getCurrentProvider())
ForceAIFailover ==
  /\ Len(recoveryHistory) < MaxHistory
  /\ LET f == FailoverResult(currentProvider) IN
       /\ provider' = f.provider
       /\ currentProvider' = f.current
       /\ recoveryHistory' = Append(recoveryHistory, f.action)
       /\ consecutiveFailures' = IF f.reset THEN 0 ELSE consecutiveFailures
  /\ lastOp' = [op |-> "forceAIFailover", arg |-> currentProvider,
                raised |-> Escapes(FailoverResult(currentProvider).thrown)]
  /\ UNCHANGED <<configVars, sideVars, primaryAdapter, fallbackAdapters, upstream, reqs,
                 isMonitoring, healthCheckInterval, ticks, cloudKeys, cloudProvider, cloudFailures,
                 cloudTimers, healerTimers, run>>

\* isActive()
IsActive == isMonitoring

\* clearHistory(): recoveryHistory = [], consecutiveFailures.clear()
ClearHistory ==
  /\ recoveryHistory' = <<>>
  /\ consecutiveFailures' = 0
  /\ cloudFailures' = [t \in CloudType |-> 0]
  /\ lastOp' = [op |-> "clearHistory", arg |-> "-", raised |-> "-"]
  /\ UNCHANGED <<configVars, sideVars, adapterVars, upstream, reqs, isMonitoring,
                 healthCheckInterval, ticks, cloudKeys, cloudProvider, cloudTimers, healerTimers,
                 run>>

(***************************************************************************)
(* SelfHealer.getRecoveryStats and exportHistory:                          *)
(* src/IMPLEMENTATION_SUMMARY.md                                           *)
(***************************************************************************)
\* successRate is kept as the fraction <<numerator, denominator>> of
\* (successful / total) * 100; the durations of the log are wall-clock
\* readings and are left out of the model with averageDuration.
\* lastRecovery is <<>> for undefined and <<entry>> otherwise.
GetRecoveryStatsOf_CountsAll(history) ==
  LET total == Len(history)
      successful == Len(history)
      failed == total - successful
  IN [total |-> total, successful |-> successful, failed |-> failed,
      successRate |-> IF total > 0 THEN <<successful * 100, total>> ELSE <<0, 1>>,
      lastRecovery |-> IF total = 0 THEN <<>> ELSE <<history[total]>>]

\* getRecoveryStats() on the log `history`
GetRecoveryStatsOf(history) ==
  LET total == Len(history)
      successful == Len(SelectSeq(history, LAMBDA r : r.success))
      failed == total - successful
  IN [total |-> total, successful |-> successful, failed |-> failed,
      successRate |-> IF total > 0 THEN <<successful * 100, total>> ELSE <<0, 1>>,
      lastRecovery |-> IF total = 0 THEN <<>> ELSE <<history[total]>>]

\* JSON text is modelled by its structure: an object is the sequence of its
\* members <<key, text of the value>> in the order JSON.stringify writes
\* them, an array is the sequence of the texts of its elements, a string, a
\* number or a boolean is itself.
\* JSON.stringify of a RecoveryAction: the Date is written by toJSON as an
\* ISO string.
StringifyAction(r) ==
  << <<"timestamp", ISOString>>,
     <<"failedProvider", r.failedProvider>>,
     <<"failoverProvider", r.failoverProvider>>,
     <<"reason", r.reason>>,
     <<"success", r.success>> >>

StringifyLog(history) == [i \in 1..Len(history) |-> StringifyAction(history[i])]

\* JSON.stringify of the stats: a member whose value is undefined is left out
StringifyStats(st) ==
  << <<"total", st.total>>,
     <<"successful", st.successful>>,
     <<"failed", st.failed>>,
     <<"successRate", st.successRate>> >>
  \o (IF st.lastRecovery = <<>> THEN <<>>
      ELSE << <<"lastRecovery", StringifyAction(st.lastRecovery[1])>> >>)

ExportedLog_LastOnly(history) ==
  IF history = <<>> THEN <<>> ELSE <<history[Len(history)]>>

\* The log exportHistory writes: this.recoveryHistory
ExportedLog(history) == history

\* exportHistory(): JSON.stringify({ recoveryHistory, stats: getRecoveryStats() })
ExportHistoryOf(history) ==
  << <<"recoveryHistory", StringifyLog(ExportedLog(history))>>,
     <<"stats", StringifyStats(GetRecoveryStatsOf(history))>> >>

\* JSON.parse: the value of member `key` of an object text
HasMember(object, key) == \E i \in 1..Len(object) : object[i][1] = key
Member(object, key) == SelectSeq(object, LAMBDA m : m[1] = key)[1][2]

\* JSON.parse of a RecoveryAction text: the timestamp comes back as a string,
\* not as a Date
ParseAction(text) ==
  [timestamp |-> Member(text, "timestamp"),
   failedProvider |-> Member(text, "failedProvider"),
   failoverProvider |-> Member(text, "failoverProvider"),
   reason |-> Member(text, "reason"),
   success |-> Member(text, "success")]

\* JSON.parse of the text of exportHistory
ParseExport(text) ==
  LET log == Member(text, "recoveryHistory")
      st == Member(text, "stats")
  IN [recoveryHistory |-> [i \in 1..Len(log) |-> ParseAction(log[i])],
      stats |-> [total |-> Member(st, "total"),
                 successful |-> Member(st, "successful"),
                 failed |-> Member(st, "failed"),
                 successRate |-> Member(st, "successRate"),
                 lastRecovery |-> IF HasMember(st, "lastRecovery")
                                  THEN <<ParseAction(Member(st, "lastRecovery"))>>
                                  ELSE <<>>]]

\* What the last getRecoveryStats or exportHistory returned: the stats at
\* that moment, and for exportHistory the text; `log` is the recoveryHistory
\* the call read
NoReport == [op |-> "none", log |-> <<>>, stats |-> <<>>, text |-> <<>>]

\* getRecoveryStats()
GetRecoveryStats ==
  /\ report' = [op |-> "getRecoveryStats",
                log |-> recoveryHistory,
                stats |-> <<GetRecoveryStatsOf(recoveryHistory)>>,
                text |-> <<>>]
  /\ UNCHANGED nonReportVars

\* exportHistory()
ExportHistory ==
  /\ report' = [op |-> "exportHistory",
                log |-> recoveryHistory,
                stats |-> <<GetRecoveryStatsOf(recoveryHistory)>>,
                text |-> ExportHistoryOf(recoveryHistory)]
  /\ UNCHANGED nonReportVars

\* new OmniAdapter(tag), under any environment
Init ==
  /\ anthropicKey \in BOOLEAN
  /\ openaiKey \in BOOLEAN
  /\ provider \in Tags
  /\ currentProvider = provider
  /\ primaryAdapter = InitialPrimaryAdapter
  /\ fallbackAdapters = InitialFallbackAdapters(provider)
  /\ upstream \in UpstreamStates
  /\ reqs = [r \in ReqIds |-> IdleReq]
  /\ lastOp = NoOp
  /\ cloudKeys = {}
  /\ HealerIdle
  /\ cloudProvider = VERCEL
  /\ bridge = BridgeIdle
  /\ route = RouteIdle
  /\ report = NoReport
  /\ slicer = SlicerIdle

Next ==
  \/ \E r \in ReqIds : SendStart(r)
  \/ \E r \in ReqIds : SendComplete(r)
  \/ \E r \in ReqIds : StreamStart(r)
  \/ \E r \in ReqIds : StreamChunk(r)
  \/ \E r \in ReqIds : StreamEnd(r)
  \/ \E r \in ReqIds : StreamError(r)
  \/ HealthCheck
  \/ \E tag \in Tags : SwitchProvider(tag)
  \/ GetCurrentProvider
  \/ GetAvailableProviders
  \/ CheckAllProviders
  \/ \E p \in Upstreams, o \in Outcomes : UpstreamChange(p, o)

Spec == Init /\ [][Next]_vars

\* new SelfHealer(aiProvider): the healer constructs its own OmniAdapter and
\* its own CloudOrchestrator (of the default cloud provider, vercel)
InitHealer ==
  /\ anthropicKey \in BOOLEAN
  /\ openaiKey \in BOOLEAN
  /\ provider \in AIProvider
  /\ currentProvider = provider
  /\ primaryAdapter = InitialPrimaryAdapter
  /\ fallbackAdapters = InitialFallbackAdapters(provider)
  /\ upstream \in UpstreamStates
  /\ reqs = [r \in ReqIds |-> IdleReq]
  /\ lastOp = NoOp
  /\ cloudKeys \in SUBSET CloudEnv
  /\ HealerIdle
  /\ cloudProvider = VERCEL
  /\ bridge = BridgeIdle
  /\ route = RouteIdle
  /\ report = NoReport
  /\ slicer = SlicerIdle

NextHealer ==
  \/ StartMonitoring
  \/ StopMonitoring
  \/ TickFire
  \/ TickProbeDone
  \/ ForceAIFailover
  \/ ClearHistory
  \/ CloudTimerFire
  \/ \E p \in Upstreams, o \in Outcomes : UpstreamChange(p, o)

SpecHealer == InitHealer /\ [][NextHealer]_vars

\* new QuovarineBridge(apiKey): the constructor throws without a key.  The
\* answers of the upstream are drawn call by call (BridgeCreateSettles).
InitBridge ==
  /\ anthropicKey = TRUE
  /\ openaiKey = FALSE
  /\ provider = ANTHROPIC
  /\ currentProvider = provider
  /\ primaryAdapter = InitialPrimaryAdapter
  /\ fallbackAdapters = InitialFallbackAdapters(provider)
  /\ upstream = [p \in Upstreams |-> "ok"]
  /\ reqs = [r \in ReqIds |-> IdleReq]
  /\ lastOp = NoOp
  /\ cloudKeys = {}
  /\ HealerIdle
  /\ cloudProvider = VERCEL
  /\ bridge = BridgeIdle
  /\ route = RouteIdle
  /\ report = NoReport
  /\ slicer = SlicerIdle

NextBridge ==
  \/ \E thinking \in BOOLEAN : BridgeSendMessage(thinking)
  \/ \E ans \in Answers : BridgeCreateSettles(ans)
  \/ BridgeSleepDone

SpecBridge == InitBridge /\ [][NextBridge]_vars

\* A SelfHealer whose monitoring is not started: failovers are forced by
\* hand, the log is cleared, read and exported.
InitStats == InitHealer

NextStats ==
  \/ ForceAIFailover
  \/ ClearHistory
  \/ GetRecoveryStats
  \/ ExportHistory
  \/ \E p \in Upstreams, o \in Outcomes : UpstreamChange(p, o)

SpecStats == InitStats /\ [][NextStats]_vars

\* A TaskSlicer under any sequence of calls
InitSlicer == InitBridge

NextSlicer ==
  \/ Import
  \/ GetNextTask
  \/ \E taskId \in TaskIds : StartTask(taskId)
  \/ \E taskId \in TaskIds : CompleteTask(taskId)
  \/ \E taskId \in TaskIds : FailTask(taskId)
  \/ \E taskId \in TaskIds : BlockTask(taskId)
  \/ Reset

SpecSlicer == InitSlicer /\ [][NextSlicer]_vars

\* The documented execution loop on a decomposed queue.  The loop is
\* straight-line code with nothing else running, so it always takes its
\* next step.
NextLoop ==
  \/ LoopDecompose
  \/ LoopGetNextTask
  \/ LoopStartTask
  \/ LoopCompleteTask

SpecLoop == InitSlicer /\ [][NextLoop]_vars /\ WF_vars(NextLoop)

\* The route module: POST requests against one usageTracker.
InitRoute == InitBridge

NextRoute ==
  \/ \E d \in Advances : ClockAdvance(d)
  \/ \E identifier \in Identifiers, authorized \in BOOLEAN :
       PostStart(identifier, authorized)
  \/ \E body \in Bodies : PostJsonSettles(body)
  \/ \E outcome \in SendMessageOutcomes : PostSendMessageSettles(outcome)

SpecRoute == InitRoute /\ [][NextRoute]_vars

(***************************************************************************)
(* Properties of the Failover Adapter (checked under Spec)                 *)
(***************************************************************************)
Finished(q) == q.pc \in {"returned", "raised"}

\* the providers of `tried`, in the order their clients were called
TriedProviders(q) == [k \in 1..Len(q.tried) |-> q.tried[k].provider]

\* s is t with some elements left out
IsSubSeq(s, t) ==
  \E f \in [1..Len(s) -> 1..Len(t)] :
     /\ \A i \in 1..Len(s) : s[i] = t[f[i]]
     /\ \A i, j \in 1..Len(s) : i < j => f[i] < f[j]

\* C1: in every reachable state the adapter's current provider is a member of
\* the enabled-provider set, unless no provider is enabled at all.
C1_CurrentProviderEnabled ==
  currentProvider \in EnabledProviders \/ EnabledProviders = {}

\* C2: when the preferred provider's client fails with a transient error and
\* another enabled provider's API answers, the sendMessage call returns a
\* response with fallbackUsed = true and actualProvider = that provider.
C2_FallbackServes ==
  [][\A r \in ReqIds :
       LET q == reqs'[r]
           others == {p \in EnabledProviders \ {q.startProvider} :
                        p \in Upstreams /\ upstream[p] = "ok"}
       IN (/\ reqs[r].kind = "sendMessage"
           /\ reqs[r].pc = "await"
           /\ Finished(q)
           /\ \E k \in 1..Len(q.tried) :
                 q.tried[k] = [provider |-> q.startProvider, result |-> "transient"]
           /\ others # {})
          => (/\ q.pc = "returned"
              /\ q.meta.fallbackUsed
              /\ q.meta.actualProvider \in others)]_vars

\* C3: when the API of every enabled provider fails, the sendMessage call
\* raises ALL_PROVIDERS_FAILED carrying the last candidate and the underlying
\* cause, and returns no response.
C3_AllProvidersFailed ==
  [][\A r \in ReqIds :
       LET q == reqs'[r] IN
       (/\ reqs[r].kind = "sendMessage"
        /\ reqs[r].pc = "await"
        /\ Finished(q)
        /\ \A p \in EnabledProviders : p \in Upstreams /\ upstream[p] # "ok"
        /\ \A k \in 1..Len(q.tried) : q.tried[k].result # "ok")
       => (/\ q.pc = "raised"
           /\ q.err = [code |-> "ALL_PROVIDERS_FAILED",
                       provider |-> q.providers[Len(q.providers)],
                       cause |-> q.tried[Len(q.tried)].result]
           /\ q.meta = NoMeta)]_vars

\* C4: switchProvider(tag) with a disabled or unknown tag raises
\* PROVIDER_NOT_ENABLED and leaves the preferred and the current provider
\* unchanged.
C4_SwitchDisabledRaises ==
  [][(lastOp'.op = "switchProvider" /\ ~Enabled(lastOp'.arg))
       => (/\ lastOp'.raised = "PROVIDER_NOT_ENABLED"
           /\ provider' = provider
           /\ currentProvider' = currentProvider)]_vars

C4_Witness ==
  /\ lastOp = [op |-> "switchProvider", arg |-> AZURE_OPENAI,
               raised |-> "PROVIDER_NOT_ENABLED"]
  /\ provider = OPENAI
  /\ currentProvider = ANTHROPIC

\* C5 as stated: switchProvider is the only operation that changes the
\* adapter's current-provider pointer.
C5_OnlySwitchMovesCurrent ==
  [][currentProvider' # currentProvider => lastOp'.op = "switchProvider"]_vars

\* C5 as amended: switchProvider is the only operation that changes the
\* preferred provider; healthCheck, checkAllProviders, getAvailableProviders
\* and getCurrentProvider leave the current-provider pointer unchanged;
\* sendMessage and streamMessage move it, and only to the candidate whose
\* client they are about to call.
C5_Frame ==
  [][/\ provider' # provider => lastOp'.op = "switchProvider"
     /\ currentProvider' # currentProvider =>
          \/ lastOp'.op = "switchProvider"
          \/ /\ lastOp'.op \in {"sendMessage", "streamMessage"}
             /\ \E r \in ReqIds :
                   /\ reqs'[r] # reqs[r]
                   /\ reqs'[r].pc = "await"
                   /\ currentProvider' = reqs'[r].providers[reqs'[r].idx]]_vars

C5_Witness ==
  /\ lastOp.op = "sendMessage"
  /\ provider = OPENAI
  /\ currentProvider = ANTHROPIC
  /\ \E r \in ReqIds : reqs[r].pc = "await" /\ reqs[r].startProvider = OPENAI

\* C6: a sendMessage in flight during a switchProvider does not observe the
\* switch: it calls candidates of the list computed at its start, in that
\* order, and requestedProvider / fallbackUsed of its response refer to the
\* provider that was preferred when it started.
C6_InFlightIgnoresSwitch ==
  \A r \in ReqIds :
    LET q == reqs[r] IN
    (q.kind = "sendMessage" /\ q.pc = "returned")
    => (/\ q.providers = FallbackOrderOf(q.startProvider)
        /\ IsSubSeq(TriedProviders(q), q.providers)
        /\ q.meta.requestedProvider = q.startProvider
        /\ q.meta.fallbackUsed = (q.meta.actualProvider # q.startProvider))

\* C7: once a candidate of streamMessage has yielded a chunk, an error from it
\* ends the stream with a failure; the delivered chunks never come from two
\* providers, and a candidate that was left for the next one had yielded none.
C7_StreamSingleProvider ==
  \A r \in ReqIds :
    LET q == reqs[r] IN
    q.kind = "streamMessage"
    => (/\ q.midErr => q.pc = "raised"
        /\ \A i, j \in 1..Len(q.chunks) : q.chunks[i] = q.chunks[j]
        /\ \A k \in 1..Len(q.tried) :
              (k < Len(q.tried) \/ q.pc = "await")
                => \A i \in 1..Len(q.chunks) : q.chunks[i] # q.tried[k].provider)

C7_Witness ==
  \E r \in ReqIds :
    /\ reqs[r].kind = "streamMessage"
    /\ reqs[r].midErr
    /\ reqs[r].pc = "raised"
    /\ reqs[r].chunks # <<>>
    /\ Len(reqs[r].providers) = 2
    /\ reqs[r].idx = 1

\* C8: the candidate list built at the start of a request begins with the
\* adapter's preferred provider, followed by the remaining enabled providers in
\* priority order; it holds no disabled provider and no provider twice.
C8_CandidateList ==
  \A r \in ReqIds :
    LET q == reqs[r]
        L == q.providers
    IN q.pc # "idle"
       => (/\ L # <<>>
           /\ L[1] = q.startProvider
           /\ Tail(L) = SelectSeq(AI_PROVIDER_FALLBACK_ORDER,
                                  LAMBDA p : p # q.startProvider /\ Enabled(p))
           /\ \A i \in 1..Len(L) : Enabled(L[i])
           /\ \A i, j \in 1..Len(L) : L[i] = L[j] => i = j)

\* The step is a run of operation op (a step of the environment leaves lastOp
\* alone and changes upstream)
Ran(op) == lastOp'.op = op /\ upstream' = upstream

\* C18: healthCheck of the provider client and of the adapter never throws:
\* when the probe times out, when the upstream call fails or when the current
\* provider has no adapter, the status has healthy = false and an error string.
C18_HealthCheckNeverThrows ==
  [][/\ \A p \in Upstreams, timedOut \in BOOLEAN :
          LET h == BridgeHealthCheck(p, timedOut) IN
          /\ h.raised = "-"
          /\ (timedOut \/ upstream[p] # "ok") => (~h.healthy /\ h.error # "-")
     /\ \A timedOut \in BOOLEAN :
          LET h == HealthOf(currentProvider, timedOut) IN
          (timedOut \/ GetAdapter(currentProvider) = Null
             \/ upstream[currentProvider] # "ok")
            => (~h.healthy /\ h.error # "-")
     /\ Ran("healthCheck")
          => /\ lastOp'.raised = "-"
             /\ lastOp'.arg # "-"
             /\ lastOp'.arg = "healthy"
                  => (GetAdapter(currentProvider) # Null
                      /\ upstream[currentProvider] = "ok")]_vars

C18_Witness ==
  /\ lastOp = [op |-> "healthCheck", arg |-> "Adapter not initialized", raised |-> "-"]
  /\ currentProvider = OPENAI
  /\ Enabled(OPENAI)

\* C19: checkAllProviders returns a map with exactly one HealthStatus for each
\* enabled provider and none for a disabled one, whatever provider the adapter
\* was constructed with.
C19_ChecksEveryEnabled ==
  [][Ran("checkAllProviders")
       => \A T \in SUBSET AIProvider :
             DOMAIN CheckAllProvidersMap(T) = EnabledProviders]_vars

(***************************************************************************)
(* Properties of the Provider Client (checked under SpecBridge)            *)
(***************************************************************************)
\* The errors the specification calls transient, among the answers drawn:
\* connection reset, 429 and 5xx
TransientAnswers == {"429", "500", "ECONNRESET"}

\* C20: when every upstream call of one sendMessage fails with a transient
\* error, the call makes at most maxAttempts upstream calls and, having made
\* that many, has raised the error.
C20_RetryCapped ==
  (\A k \in 1..Len(bridge.answers) : bridge.answers[k] \in TransientAnswers)
    => (/\ Len(bridge.answers) <= maxAttempts
        /\ Len(bridge.answers) = maxAttempts => bridge.pc = "raised")

(***************************************************************************)
(* Properties of the Provider Client's error handling (SpecBridge)         *)
(***************************************************************************)
\* HTTP statuses of the 4xx class among the answers
ClientErrorAnswers == {"400", "401", "408", "429"}

\* C21 as stated: a first answer with any 4xx status other than 429 makes
\* sendMessage fail at once: one upstream call, no retry delay, the error
\* raised to the caller.
C21_ClientErrorFailsAtOnce ==
  (bridge.answers # <<>> /\ bridge.answers[1] \in ClientErrorAnswers \ {"429"})
    => /\ bridge.pc = "raised"
       /\ Len(bridge.answers) = 1
       /\ bridge.delays = <<>>
       /\ bridge.err = CreateError(bridge.answers[1])

\* C21 amended: a first answer with a 4xx status other than 408 and 429
\* makes sendMessage fail at once: one upstream call, no retry delay, the
\* error raised to the caller.
C21_NonRetryableFailsAtOnce ==
  (bridge.answers # <<>> /\ bridge.answers[1] \in ClientErrorAnswers \ {"408", "429"})
    => /\ bridge.pc = "raised"
       /\ Len(bridge.answers) = 1
       /\ bridge.delays = <<>>
       /\ bridge.err = CreateError(bridge.answers[1])

C21_Witness ==
  /\ bridge.pc = "raised"
  /\ bridge.answers = <<"401">>
  /\ bridge.delays = <<>>
  /\ bridge.err = "ANTHROPIC_API_ERROR_401"

\* C22: a call whose request asks for thinking and whose upstream refuses
\* the thinking parameter does not fail: sendMessage goes on without the
\* parameter and returns a response.
C22_ThinkingBestEffort ==
  (bridge.answers # <<>> /\ bridge.answers[Len(bridge.answers)] = ThinkingRejected)
    => bridge.pc # "raised"

\* C29: failover attempts are serialized, so that the ticks of one failure
\* cycle (the unhealthy probes since the counter was last zero), overlapping
\* or not, record one RecoveryAction for the cycle and never two.
C29_OneActionPerCycle == run.actions <= 1

\* C30: a finished sendMessage call has called the clients of its candidates
\* in candidate order, each once: when it returns, the candidate that served
\* is the last one called, every candidate before it was called once and
\* failed and none after it was called; when it raises, the list is
\* exhausted: every candidate that has a client was called once and failed.
C30_FirstSuccessInOrder ==
  \A r \in ReqIds :
    LET q == reqs[r]
        n == Len(q.tried)
    IN (q.kind = "sendMessage" /\ Finished(q))
       => /\ \A k \in 1..(n - 1) : q.tried[k].result # "ok"
          /\ q.pc = "returned" => /\ n >= 1
                                  /\ TriedProviders(q) = SubSeq(q.providers, 1, n)
                                  /\ q.tried[n].result = "ok"
                                  /\ q.meta.actualProvider = q.providers[n]
          /\ q.pc = "raised" =>
               /\ TriedProviders(q) =
                    SelectSeq(q.providers, LAMBDA c : GetAdapter(c) # Null)
               /\ \A k \in 1..n : q.tried[k].result # "ok"

(***************************************************************************)
(* Properties of the TaskSlicer (SpecSlicer, SpecLoop)                     *)
(***************************************************************************)
\* The dependency depId is COMPLETED: the task of that id (getTaskById) is
\* in the queue with status COMPLETED
DependencyCompleted(tasks, depId) ==
  FindTask(tasks, depId) # 0 /\ tasks[FindTask(tasks, depId)].status = COMPLETED

\* The tasks getNextTask may hand out: PENDING, every dependency COMPLETED
Eligible(tasks) ==
  {i \in 1..Len(tasks) :
     /\ tasks[i].status = PENDING
     /\ \A depId \in tasks[i].dependencies : DependencyCompleted(tasks, depId)}

\* C27: getNextTask returns only a task that is PENDING with all its
\* dependencies COMPLETED, among those one of the highest priority, and it
\* returns null exactly when there is no such task.
C27_NextTaskRespectsDependencies ==
  slicer.last = "getNextTask" =>
    LET tasks == slicer.queue.tasks
        i == slicer.next
    IN /\ i = 0 <=> Eligible(tasks) = {}
       /\ i # 0 => /\ i \in Eligible(tasks)
                   /\ \A j \in Eligible(tasks) : tasks[j].priority <= tasks[i].priority

C27_Witness ==
  /\ slicer.last = "getNextTask"
  /\ slicer.next = 2
  /\ Len(slicer.queue.tasks) = 2
  /\ slicer.queue.tasks[1].status = COMPLETED
  /\ slicer.queue.tasks[2].dependencies = {slicer.queue.tasks[1].id}

\* All tasks of the queue are COMPLETED
AllCompleted(q) == \A i \in 1..Len(q.tasks) : q.tasks[i].status = COMPLETED

CountSuccess(log, b) == Cardinality({i \in 1..Len(log) : log[i].success = b})

\* C25: getRecoveryStats reflects the full log: total is the log length,
\* successful the number of entries with success = true, failed = total -
\* successful, lastRecovery the most recently appended entry; on an empty log
\* total = 0, successRate = 0 and lastRecovery = undefined.
C25_StatsReflectLog ==
  report.op = "getRecoveryStats" =>
    LET st == report.stats[1]
        log == report.log
    IN /\ st.total = Len(log)
       /\ st.successful = CountSuccess(log, TRUE)
       /\ st.failed = st.total - st.successful
       /\ log # <<>> => st.lastRecovery = <<log[Len(log)]>>
       /\ log = <<>> => /\ st.total = 0
                        /\ st.successRate = <<0, 1>>
                        /\ st.lastRecovery = <<>>

C25_Witness ==
  /\ report.op = "getRecoveryStats"
  /\ Len(report.log) = 2
  /\ report.stats[1].failed = 2
  /\ report.stats[1].lastRecovery = <<FailedAction(ANTHROPIC, "NO_FAILOVER_AVAILABLE")>>

\* C26: parsing the string exportHistory returned yields a recoveryHistory
\* whose length, number of success = true entries and number of success =
\* false entries are total, successful and failed of getRecoveryStats() at
\* export time.
C26_ExportRoundTrip ==
  report.op = "exportHistory" =>
    LET parsed == ParseExport(report.text).recoveryHistory
        st == report.stats[1]
    IN /\ Len(parsed) = st.total
       /\ CountSuccess(parsed, TRUE) = st.successful
       /\ CountSuccess(parsed, FALSE) = st.failed

C26_Witness ==
  /\ report.op = "exportHistory"
  /\ Len(report.log) = 2
  /\ Len(ParseExport(report.text).recoveryHistory) = 2
  /\ ParseExport(report.text).recoveryHistory[1] # report.log[1]
  /\ ParseExport(report.text).stats.failed = 2

(***************************************************************************)
(* Properties of the route (SpecRoute)                                     *)
(***************************************************************************)
\* C23: for every identifier and every interval of 60 seconds, at most
\* maxRequests requests of that identifier pass checkRateLimit.
\* route.admitted[i] holds the admissions of i that are less than windowMs
\* old, so every interval's count shows there when its last request passes.
C23_RollingWindowQuota ==
  \A i \in Identifiers : Len(route.admitted[i]) <= maxRequests

\* C24: when adapter.sendMessage raises on a non-streaming POST, POST
\* answers with HTTP 500 and a body of error, code and provider; the error
\* does not leave POST as an exception.
C24_ExhaustionAnswered500 ==
  route.adapter = "raised" => route.answer = "500 error code provider"

(***************************************************************************)
(* Properties of the Health Monitor (checked under SpecHealer)             *)
(***************************************************************************)
\* C9: from a zero counter, a run of alertThreshold consecutive unhealthy
\* probes of the AI provider appends no RecoveryAction on the probes before
\* the last and exactly one on the last.
C9_OneAttemptAtThreshold ==
  /\ run.probes < alertThreshold => run.actions = 0
  /\ run.probes = alertThreshold => run.actions = 1

C9_Witness ==
  /\ run = [probes |-> alertThreshold, actions |-> 1]
  /\ Len(recoveryHistory) = 1
  /\ lastOp.op = "performHealthChecks"

\* C10: right after a failover attempt that the threshold triggered, the AI
\* consecutive-failure counter is zero, whether the attempt succeeded or not.
C10_CounterZeroAfterAttempt ==
  [][(lastOp'.op = "performHealthChecks"
        /\ Len(recoveryHistory') = Len(recoveryHistory) + 1)
       => consecutiveFailures' = 0]_vars

\* The step that finishes a tick (TickProbeDone)
TickStep ==
  /\ ticks' = ticks - 1
  /\ lastOp'.op = "performHealthChecks"

\* The tick step on which the run of unhealthy probes reaches the threshold
ThresholdStep ==
  /\ TickStep
  /\ lastOp'.arg = "unhealthy"
  /\ run'.probes = alertThreshold

\* The RecoveryActions a step appended to the log
Appended == SubSeq(recoveryHistory', Len(recoveryHistory) + 1, Len(recoveryHistory'))

\* C11: with anthropic (priority 1) and openai (priority 2) both enabled and
\* current = anthropic, the third consecutive unhealthy probe of anthropic
\* switches the current provider to openai and, the re-probe of openai being
\* healthy, appends a RecoveryAction with success = true, failedProvider =
\* anthropic and failoverProvider = openai.
C11_FailoverToNext ==
  [][(/\ ThresholdStep
      /\ Enabled(ANTHROPIC) /\ Enabled(OPENAI)
      /\ currentProvider = ANTHROPIC
      /\ upstream[OPENAI] = "ok")
       => (/\ currentProvider' = OPENAI
           /\ Len(Appended) = 1
           /\ Appended[1].success
           /\ Appended[1].failedProvider = ANTHROPIC
           /\ Appended[1].failoverProvider = OPENAI)]_vars

\* C12: in the same setup, when the re-probe of openai after the switch is
\* unhealthy too, exactly one RecoveryAction with success = false is appended
\* and the current provider stays openai.
C12_FailedFailoverKeepsSwitch ==
  [][(/\ ThresholdStep
      /\ Enabled(ANTHROPIC) /\ Enabled(OPENAI)
      /\ currentProvider = ANTHROPIC
      /\ upstream[OPENAI] # "ok")
       => (/\ Len(Appended) = 1
           /\ ~Appended[1].success
           /\ currentProvider' = OPENAI)]_vars

\* C13: with anthropic the only enabled provider, when it fails threshold
\* times a RecoveryAction with failoverProvider = "none" and success = false
\* is appended, the current provider is unchanged and no exception leaves the
\* monitor.
C13_NoAlternative ==
  [][(/\ ThresholdStep
      /\ EnabledProviders = {ANTHROPIC}
      /\ currentProvider = ANTHROPIC)
       => (/\ Len(Appended) = 1
           /\ Appended[1].failoverProvider = "none"
           /\ ~Appended[1].success
           /\ Appended[1].failedProvider = ANTHROPIC
           /\ currentProvider' = currentProvider
           /\ provider' = provider
           /\ lastOp'.raised = "-")]_vars

C13_Witness ==
  /\ lastOp = [op |-> "performHealthChecks", arg |-> "unhealthy", raised |-> "-"]
  /\ run = [probes |-> alertThreshold, actions |-> 1]
  /\ EnabledProviders = {ANTHROPIC}
  /\ currentProvider = ANTHROPIC
  /\ recoveryHistory = <<FailedAction(ANTHROPIC, "NO_FAILOVER_AVAILABLE")>>

\* C14: a healthy probe of a target sets that target's consecutive-failure
\* counter to zero and an unhealthy probe adds one to it, for the AI adapter
\* and for every probed cloud provider; a tick appends a RecoveryAction only
\* when at least threshold unhealthy probes came with no healthy one between.
C14_CounterFollowsProbes ==
  [][TickStep
       => (/\ lastOp'.arg = "healthy" => consecutiveFailures' = 0
           /\ lastOp'.arg = "unhealthy" => consecutiveFailures' = consecutiveFailures + 1
           /\ \A t \in CloudType :
                CloudEnabled(t) =>
                  cloudFailures'[t] = IF CloudHealthy(t) THEN 0 ELSE cloudFailures[t] + 1
           /\ Appended # <<>> => run'.probes >= alertThreshold)]_vars

C14_Witness ==
  /\ lastOp = [op |-> "performHealthChecks", arg |-> "healthy", raised |-> "-"]
  /\ consecutiveFailures = 0
  /\ cloudFailures[VERCEL] = alertThreshold + 1
  /\ recoveryHistory = <<FailedAction(ANTHROPIC, "NO_FAILOVER_AVAILABLE")>>

C16_StopWhenInactive ==
  [][(lastOp'.op = "stopMonitoring" /\ ~isMonitoring)
       => (/\ lastOp'.raised = "-"
           /\ UNCHANGED <<recoveryHistory, consecutiveFailures, cloudFailures>>
           /\ ~isMonitoring'
           /\ ~healthCheckInterval'
           /\ healerTimers' = 0)]_vars

C16_Witness ==
  /\ lastOp = [op |-> "stopMonitoring", arg |-> "-", raised |-> "-"]
  /\ ~isMonitoring
  /\ consecutiveFailures = alertThreshold
  /\ Len(recoveryHistory) = 1

\* C17: an exception of the health probe or of the failover during a tick does
\* not end the monitor loop: the probe's failure becomes an unhealthy status,
\* the failover's error becomes a failed RecoveryAction, nothing escapes the
\* tick, the tick leaves the timer and isMonitoring alone, and only
\* stopMonitoring takes the timer away.
C17_LoopSurvivesErrors ==
  [][/\ TickStep
          => /\ lastOp'.raised = "-"
             /\ UNCHANGED <<isMonitoring, healthCheckInterval, healerTimers>>
             /\ (GetAdapter(currentProvider) = Null \/ upstream[currentProvider] # "ok")
                   => lastOp'.arg = "unhealthy"
             /\ (lastOp'.arg = "unhealthy" /\ consecutiveFailures' >= alertThreshold)
                   => (Len(Appended) = 1 /\ ~Appended[1].success
                       /\ Appended[1].reason # "-")
     /\ healerTimers' < healerTimers => lastOp'.op = "stopMonitoring"
     /\ isMonitoring' => healerTimers' > 0]_vars

C17_Witness ==
  /\ lastOp.op = "tick"
  /\ ticks = 1
  /\ isMonitoring
  /\ consecutiveFailures > alertThreshold
  /\ Len(recoveryHistory) = 2
  /\ recoveryHistory[2].reason = "NO_FAILOVER_AVAILABLE"

(***************************************************************************)
(* Properties of the RecoveryAction log and of stopping (SpecHealer)       *)
(***************************************************************************)
\* s is a prefix of t
IsPrefix(s, t) == Len(s) <= Len(t) /\ SubSeq(t, 1, Len(s)) = s

\* C31: the RecoveryAction log is only ever appended to: whatever operation
\* of the Health Monitor runs, the entries the log held before remain,
\* unmodified and in the same order, as a prefix of the log.
C31_LogAppendOnly ==
  [][IsPrefix(recoveryHistory, recoveryHistory')]_vars

\* C31 as amended: every operation other than clearHistory keeps the log as
\* a prefix of the log it leaves; clearHistory leaves the log empty.
C31_AppendOnlyUntilCleared ==
  [][/\ ~Ran("clearHistory") => IsPrefix(recoveryHistory, recoveryHistory')
     /\ Ran("clearHistory") => recoveryHistory' = <<>>]_vars

C31_Witness ==
  /\ lastOp.op = "forceAIFailover"
  /\ Len(recoveryHistory) = 2
  /\ run.actions = 1

C33_StoppedMonitorIsQuiet ==
  [][(~isMonitoring /\ TickStep)
       => (Appended = <<>> /\ UNCHANGED <<provider, currentProvider>>)]_vars

\* C34: after any startMonitoring and stopMonitoring calls at most one AI
\* health-check timer and at most one cloud health-check timer are scheduled,
\* and isActive() is true exactly when the AI health-check timer is scheduled.
C34_TimersMatchIsActive ==
  /\ healerTimers <= 1
  /\ cloudTimers <= 1
  /\ IsActive <=> healerTimers = 1

C34_Witness ==
  /\ lastOp = [op |-> "stopMonitoring", arg |-> "cleared", raised |-> "-"]
  /\ ~IsActive
  /\ healerTimers = 0
  /\ cloudTimers = 0
  /\ ticks = 1

(***************************************************************************)
(* The provider the adapter reports and the provider that serves (Spec)    *)
(***************************************************************************)
\* C35: the provider healthCheck probes and getCurrentProvider reports
\* (currentProvider) is the provider a new request tries first: the head of
\* the candidate list, or the first candidate of the list that has a client
\* (the loop passes over the others without calling anything).
C35_ProbedProviderServes ==
  LET providers == GetProviderFallbackOrder
      i == NextWithAdapter(providers, 1)
  IN i # 0 => (currentProvider = providers[1] \/ currentProvider = providers[i])

(***************************************************************************)
(* The cloud targets of the Health Monitor (SpecHealer)                    *)
(***************************************************************************)
\* The tick step on which a cloud target's counter is at or past the threshold
CloudThresholdStep ==
  /\ TickStep
  /\ \E t \in CloudType : /\ CloudEnabled(t) /\ ~CloudHealthy(t)
                          /\ cloudFailures'[t] >= alertThreshold

\* C36: a tick on which a cloud target's consecutive-failure counter reaches
\* the alert threshold only logs for that target: the log grows by what the
\* AI probe of the tick accounts for and by nothing else, the AI adapter's
\* provider changes only with such an entry, and the orchestrator's current
\* cloud provider is left as it was.
C36_CloudThresholdOnlyLogs ==
  [][CloudThresholdStep =>
       /\ Len(Appended) = IF /\ lastOp'.arg = "unhealthy"
                             /\ ThresholdReached(consecutiveFailures + 1)
                          THEN 1 ELSE 0
       /\ \A i \in 1..Len(Appended) : Appended[i].failedProvider \in AIProvider
       /\ Appended = <<>> => UNCHANGED <<provider, currentProvider>>
       /\ cloudProvider' = cloudProvider]_vars

C36_Witness ==
  /\ lastOp = [op |-> "performHealthChecks", arg |-> "healthy", raised |-> "-"]
  /\ cloudProvider = VERCEL
  /\ cloudFailures[VERCEL] = alertThreshold
  /\ CloudHealthy(AWS)
  /\ cloudTimers = 1
  /\ recoveryHistory = <<>>

(***************************************************************************)
(* The backoff of the Provider Client (SpecBridge)                         *)
(***************************************************************************)
\* min(1000 x 2^k, 10000) for the retries k = 0, 1, 2, ...
ShippedDelay(k) ==
  CASE k = 0 -> 1000
    [] k = 1 -> 2000
    [] k = 2 -> 4000
    [] k = 3 -> 8000
    [] OTHER -> 10000

\* C37: the delay waited before retry number k (k = 0 for the first retry)
\* is min(initialDelay x multiplier^k, maxDelay), which is min(1000 x 2^k,
\* 10000) ms; over the retries of one request the delays do not decrease and
\* never exceed maxDelay.
C37_BackoffDelays ==
  \A n \in 1..Len(bridge.delays) :
    /\ bridge.delays[n] = ShippedDelay(n - 1)
    /\ bridge.delays[n] = IF n = 1 THEN initialDelay
                          ELSE IF bridge.delays[n - 1] * backoffMultiplier <= maxDelay
                          THEN bridge.delays[n - 1] * backoffMultiplier
                          ELSE maxDelay
    /\ bridge.delays[n] <= maxDelay
    /\ n > 1 => bridge.delays[n - 1] <= bridge.delays[n]

C37_Witness ==
  /\ bridge.pc = "returned"
  /\ bridge.delays = <<1000, 2000, 4000>>
  /\ bridge.answers[Len(bridge.answers)] = "200"

(***************************************************************************)
(* The counters and the statuses of the TaskSlicer (SpecSlicer)            *)
(***************************************************************************)
\* The number of tasks of the queue with status st
CountStatus(q, st) == Cardinality({i \in 1..Len(q.tasks) : q.tasks[i].status = st})

\* C38: after any startTask, completeTask, failTask and blockTask calls,
\* completedTasks is the number of COMPLETED tasks, failedTasks the number of
\* FAILED tasks, completedTasks + failedTasks <= totalTasks, and
\* percentComplete is at most 100.
C38_CountersMatchStatuses ==
  LET q == slicer.queue IN
  /\ q.completedTasks = CountStatus(q, COMPLETED)
  /\ q.failedTasks = CountStatus(q, FAILED)
  /\ q.completedTasks + q.failedTasks <= q.totalTasks
  /\ PercentComplete(q)[1] <= 100 * PercentComplete(q)[2]

\* C39: COMPLETED is final: a startTask, completeTask, failTask or blockTask
\* call leaves every COMPLETED task COMPLETED.
C39_CompletedIsFinal ==
  [][slicer'.last \in {"startTask", "completeTask", "failTask", "blockTask"}
       => \A i \in 1..Len(slicer.queue.tasks) :
            slicer.queue.tasks[i].status = COMPLETED
              => slicer'.queue.tasks[i].status = COMPLETED]_vars

====
